---- MODULE Spec2Model ----
(***************************************************************************)
(* The Concept-IRI converter of fhirlib (class ConceptIRI): the prefix     *)
(* index built by the constructor, codeToIRI, fromCoding and toCoding.     *)
(*                                                                         *)
(* A string is a sequence of Unicode code points (natural numbers).  A     *)
(* lone surrogate is the code point of that surrogate, as the /u regular   *)
(* expression of codeToIRI sees it.                                        *)
(***************************************************************************)
EXTENDS Integers, Sequences, FiniteSets, TLC

VARIABLES
    pc,            \* "building" | "ready" | "failed": the constructor's position
    file,          \* the parsed document the constructor is working on, or NoFile
    nfiles,        \* number of directory entries the constructor has gone through
    ei,            \* index of the identifier / uniqueId entry being visited
    ui,            \* index into uris (naming-system documents)
    prefixIndex,   \* this.prefixIndex: prefix -> system URIs, in insertion order
    uriIndex,      \* this.uriIndex: system URI -> prefixes, in insertion order
    op,            \* the last call: "none" | "codeToIRI" | "fromCoding" | "toCoding"
    arg,           \* its argument
    ret,           \* its outcome
    origin         \* the Coding whose first IRI was handed to toCoding, or NoCoding

vars == <<pc, file, nfiles, ei, ui, prefixIndex, uriIndex, op, arg, ret, origin>>

-----------------------------------------------------------------------------
(* Bounds of the model *)

MaxFiles == 2
MaxEntries == 2
MaxCodeLen == 2
MaxIriLen == 3
MaxScanLen == 2

-----------------------------------------------------------------------------
(* JavaScript values *)

\* undefined (an absent field); no string contains the code point -1
Undefined == <<-1>>

\* String(undefined), which is also the property key undefined turns into
UndefinedStr == <<117, 110, 100, 101, 102, 105, 110, 101, 100>>

\* the key a value becomes when it is used as a property name
PropertyKey(v) == IF v = Undefined THEN UndefinedStr ELSE v

\* coding.system || ''
OrEmptyString(v) == IF v = Undefined \/ v = <<>> THEN <<>> ELSE v

\* a list-valued field of a document: absent, or the list of its entries
AbsentList == [absent |-> TRUE, entries |-> <<>>]
List(entries) == [absent |-> FALSE, entries |-> entries]

\* content.identifier || [] , content.uniqueId || []
OrEmptyList(v) == IF v.absent THEN <<>> ELSE v.entries

\* 'urn:ietf:rfc:3986'
Rfc3986 == <<117, 114, 110, 58, 105, 101, 116, 102, 58, 114, 102, 99, 58, 51, 57, 56, 54>>

RECURSIVE Join(_, _)
\* Array.prototype.join
Join(list, sep) ==
    IF Len(list) = 0 THEN <<>>
    ELSE IF Len(list) = 1 THEN list[1]
    ELSE list[1] \o sep \o Join(Tail(list), sep)

\* all strings over alphabet of length at most n
StringsUpTo(alphabet, n) == UNION {[1..k -> alphabet] : k \in 0..n}

-----------------------------------------------------------------------------
(* codeToIRI *)

\* the character class [A-Za-z0-9\-\._~]
IsUnreserved(cp) ==
    \/ cp \in 65..90
    \/ cp \in 97..122
    \/ cp \in 48..57
    \/ cp \in {45, 46, 95, 126}

\* UcscharRanges with the last range begun at 0xE0000 instead of 0xE1000
UcscharRangesFromE0000 == <<
    <<160, 55295>>, <<63744, 64975>>, <<65008, 65519>>, <<65536, 131069>>,
    <<131072, 196605>>, <<196608, 262141>>, <<262144, 327677>>,
    <<327680, 393213>>, <<393216, 458749>>, <<458752, 524285>>,
    <<524288, 589821>>, <<589824, 655357>>, <<655360, 720893>>,
    <<720896, 786429>>, <<786432, 851965>>, <<851968, 917501>>,
    <<917504, 983037>> >>

\* the ucschar ranges the else-if chain compares cp against
UcscharRanges == <<
    <<160, 55295>>,          \* 0x00A0 - 0xD7FF
    <<63744, 64975>>,        \* 0xF900 - 0xFDCF
    <<65008, 65519>>,        \* 0xFDF0 - 0xFFEF
    <<65536, 131069>>,       \* 0x10000 - 0x1FFFD
    <<131072, 196605>>,      \* 0x20000 - 0x2FFFD
    <<196608, 262141>>,      \* 0x30000 - 0x3FFFD
    <<262144, 327677>>,      \* 0x40000 - 0x4FFFD
    <<327680, 393213>>,      \* 0x50000 - 0x5FFFD
    <<393216, 458749>>,      \* 0x60000 - 0x6FFFD
    <<458752, 524285>>,      \* 0x70000 - 0x7FFFD
    <<524288, 589821>>,      \* 0x80000 - 0x8FFFD
    <<589824, 655357>>,      \* 0x90000 - 0x9FFFD
    <<655360, 720893>>,      \* 0xA0000 - 0xAFFFD
    <<720896, 786429>>,      \* 0xB0000 - 0xBFFFD
    <<786432, 851965>>,      \* 0xC0000 - 0xCFFFD
    <<851968, 917501>>,      \* 0xD0000 - 0xDFFFD
    <<921600, 983037>> >>    \* 0xE1000 - 0xEFFFD

InUcschar(cp) ==
    \E i \in 1..Len(UcscharRanges) :
        cp >= UcscharRanges[i][1] /\ cp <= UcscharRanges[i][2]

\* Buffer.from(ch, 'utf-8') for the single code point cp
Utf8Encode(cp) ==
    IF cp < 128 THEN <<cp>>
    ELSE IF cp < 2048 THEN <<192 + (cp \div 64), 128 + (cp % 64)>>
    ELSE IF cp \in 55296..57343 THEN <<239, 191, 189>>
    ELSE IF cp < 65536 THEN
        <<224 + (cp \div 4096), 128 + ((cp \div 64) % 64), 128 + (cp % 64)>>
    ELSE <<240 + (cp \div 262144), 128 + ((cp \div 4096) % 64),
           128 + ((cp \div 64) % 64), 128 + (cp % 64)>>

HexDigit(d) == IF d < 10 THEN 48 + d ELSE 87 + d

RECURSIVE ToString16(_)
\* Number.prototype.toString(16)
ToString16(n) ==
    IF n < 16 THEN <<HexDigit(n)>>
    ELSE ToString16(n \div 16) \o <<HexDigit(n % 16)>>

\* String.prototype.toUpperCase, on the ASCII strings it is applied to
ToUpperCase(s) == [i \in 1..Len(s) |-> IF s[i] \in 97..122 THEN s[i] - 32 ELSE s[i]]

\* String.prototype.padStart
PadStart(s, n, fill) ==
    IF Len(s) >= n THEN s ELSE [i \in 1..(n - Len(s)) |-> fill] \o s

\* PercentByte without the branch that pads a single digit with '0'
PercentByteUnpadded(utf8ch) == <<37>> \o ToUpperCase(ToString16(utf8ch))

\* the %XX triplet of one UTF-8 byte (a byte never exceeds 0xFF, so the throw
\* of the last branch cannot happen)
PercentByte(utf8ch) ==
    IF utf8ch <= 15 THEN <<37, 48>> \o ToUpperCase(ToString16(utf8ch))
    ELSE <<37>> \o ToUpperCase(ToString16(utf8ch))

\* whether the replace callback pushes cp on invalid_characters
IsInvalid(cp) == ~IsUnreserved(cp) /\ ~(cp < 160) /\ ~InUcschar(cp)

\* what code.replace puts in the place of the code point cp
ReplaceChar(cp) ==
    IF IsUnreserved(cp) THEN <<cp>>
    ELSE IF cp < 160 THEN
        Join([i \in 1..Len(Utf8Encode(cp)) |-> PercentByte(Utf8Encode(cp)[i])], <<>>)
    ELSE IF InUcschar(cp) THEN <<cp>>
    ELSE UndefinedStr

\* "U+" + cp.toString(16).toUpperCase().padStart(4, '0')
FormatCodePoint(cp) == <<85, 43>> \o PadStart(ToUpperCase(ToString16(cp)), 4, 48)

\* `Invalid characters found in code "${code}": ` + the formatted code points
InvalidMessage(code, invalid_characters) ==
    <<73, 110, 118, 97, 108, 105, 100, 32, 99, 104, 97, 114, 97, 99, 116, 101,
      114, 115, 32, 102, 111, 117, 110, 100, 32, 105, 110, 32, 99, 111, 100,
      101, 32, 34>>
    \o code \o <<34, 58, 32>>
    \o Join([i \in 1..Len(invalid_characters) |->
                FormatCodePoint(invalid_characters[i])], <<44, 32>>)

\* the outcome of a call: a returned value or a thrown error
Return(v) == [threw |-> FALSE, value |-> v, error |-> <<>>]
Throw(e) == [threw |-> TRUE, value |-> <<>>, error |-> e]

\* CodeToIRI reporting the first invalid code point only
CodeToIRIFirstOnly(code) ==
    LET invalid_characters == SelectSeq(code, IsInvalid)
        escaped_code == Join([i \in 1..Len(code) |-> ReplaceChar(code[i])], <<>>)
    IN  IF Len(invalid_characters) > 0
        THEN Throw(InvalidMessage(code, <<invalid_characters[1]>>))
        ELSE Return(escaped_code)

CodeToIRI(code) ==
    LET invalid_characters == SelectSeq(code, IsInvalid)
        escaped_code == Join([i \in 1..Len(code) |-> ReplaceChar(code[i])], <<>>)
    IN  IF Len(invalid_characters) > 0
        THEN Throw(InvalidMessage(code, invalid_characters))
        ELSE Return(escaped_code)

-----------------------------------------------------------------------------
(* decodeURIComponent *)

\* the value of a hexadecimal digit, -1 if c is none
HexValue(c) ==
    IF c \in 48..57 THEN c - 48
    ELSE IF c \in 65..70 THEN c - 55
    ELSE IF c \in 97..102 THEN c - 87
    ELSE -1

\* s has '%' and two hexadecimal digits at position k
HasEscapeAt(s, k) ==
    /\ k + 2 <= Len(s)
    /\ s[k] = 37
    /\ HexValue(s[k + 1]) >= 0
    /\ HexValue(s[k + 2]) >= 0

EscapeAt(s, k) == 16 * HexValue(s[k + 1]) + HexValue(s[k + 2])

\* number of octets the lead octet b announces, 0 if b cannot lead
Utf8Length(b) ==
    IF b \in 192..223 THEN 2
    ELSE IF b \in 224..239 THEN 3
    ELSE IF b \in 240..247 THEN 4
    ELSE 0

\* the code point of a well-formed octet sequence, -1 otherwise
Utf8Decode(octets) ==
    LET n == Len(octets)
        cp == IF n = 2 THEN (octets[1] - 192) * 64 + (octets[2] - 128)
              ELSE IF n = 3 THEN (octets[1] - 224) * 4096 + (octets[2] - 128) * 64
                                 + (octets[3] - 128)
              ELSE (octets[1] - 240) * 262144 + (octets[2] - 128) * 4096
                   + (octets[3] - 128) * 64 + (octets[4] - 128)
        least == IF n = 2 THEN 128 ELSE IF n = 3 THEN 2048 ELSE 65536
    IN  IF cp < least \/ cp > 1114111 \/ cp \in 55296..57343 THEN -1 ELSE cp

\* URIError: URI malformed
URIError == <<85, 82, 73, 69, 114, 114, 111, 114>>

RECURSIVE Decode(_, _, _)
Decode(s, k, acc) ==
    IF k > Len(s) THEN Return(acc)
    ELSE IF s[k] # 37 THEN Decode(s, k + 1, Append(acc, s[k]))
    ELSE IF ~HasEscapeAt(s, k) THEN Throw(URIError)
    ELSE LET b == EscapeAt(s, k)
             n == Utf8Length(b)
         IN  IF b < 128 THEN Decode(s, k + 3, Append(acc, b))
             ELSE IF n = 0 THEN Throw(URIError)
             ELSE IF k + 3 * n - 1 > Len(s) THEN Throw(URIError)
             ELSE IF \E j \in 1..(n - 1) :
                        \/ ~HasEscapeAt(s, k + 3 * j)
                        \/ EscapeAt(s, k + 3 * j) \notin 128..191
                  THEN Throw(URIError)
             ELSE LET octets == [j \in 1..n |-> EscapeAt(s, k + 3 * (j - 1))]
                      cp == Utf8Decode(octets)
                  IN  IF cp = -1 THEN Throw(URIError)
                      ELSE Decode(s, k + 3 * n, Append(acc, cp))

DecodeURIComponent(s) == Decode(s, 1, <<>>)

-----------------------------------------------------------------------------
(* The prefix index: an object whose own keys map to objects whose own keys  *)
(* are the members.  Object.keys lists the keys in insertion order (none of  *)
(* the keys of the model is an array index).                                 *)

\* {}
EmptyObject == <<>>

HasOwnProperty(obj, key) == key \in DOMAIN obj

\* members[key] = 1
SetMember(members, key) ==
    IF \E i \in 1..Len(members) : members[i] = key THEN members
    ELSE Append(members, key)

\* if (!index.hasOwnProperty(outer)) index[outer] = {}; index[outer][inner] = 1;
SetEntry(index, outer, inner) ==
    LET o == PropertyKey(outer)
        i == PropertyKey(inner)
        created == IF HasOwnProperty(index, o) THEN index ELSE (o :> <<>>) @@ index
    IN  [created EXCEPT ![o] = SetMember(@, i)]

\* the two assignments of one registration, to this.prefixIndex
RegisterPrefix(index, value, uri) == SetEntry(index, value, uri)

\* RegisterUri keeping only the first prefix of a URI
RegisterUriFirstOnly(index, value, uri) ==
    IF HasOwnProperty(index, PropertyKey(uri)) THEN index ELSE SetEntry(index, uri, value)

\* and to this.uriIndex
RegisterUri(index, value, uri) == SetEntry(index, uri, value)

-----------------------------------------------------------------------------
(* fromCoding and toCoding *)

Coding(system, code) == [system |-> system, code |-> code]

\* FromCoding as it was before codes were encoded: the prefix followed by
\* the code as it is
FromCodingUnencoded(uriIdx, coding) ==
    LET system == OrEmptyString(coding.system)
    IN  IF system = Rfc3986 THEN Return(<<coding.code>>)
        ELSE IF system \in DOMAIN uriIdx THEN
            Return([k \in 1..Len(uriIdx[system]) |-> uriIdx[system][k] \o coding.code])
        ELSE Return(<<>>)

\* FromCoding without the test for 'urn:ietf:rfc:3986'
FromCodingNoSentinel(uriIdx, coding) ==
    LET system == OrEmptyString(coding.system)
    IN  IF system \in DOMAIN uriIdx THEN
            LET keys == uriIdx[system]
                encoded == CodeToIRI(coding.code)
            IN  IF Len(keys) > 0 /\ encoded.threw THEN encoded
                ELSE Return([k \in 1..Len(keys) |-> keys[k] \o encoded.value])
        ELSE Return(<<>>)

\* FromCoding returning no IRI for a code that codeToIRI rejects
FromCodingSwallowing(uriIdx, coding) ==
    LET system == OrEmptyString(coding.system)
    IN  IF system = Rfc3986 THEN Return(<<coding.code>>)
        ELSE IF system \in DOMAIN uriIdx THEN
            LET keys == uriIdx[system]
                encoded == CodeToIRI(coding.code)
            IN  IF encoded.threw THEN Return(<<>>)
                ELSE Return([k \in 1..Len(keys) |-> keys[k] \o encoded.value])
        ELSE Return(<<>>)

\* (`system in this.uriIndex` also holds for the names Object.prototype
\* supplies, whose values have no keys: the result is the empty list as well)
FromCoding(uriIdx, coding) ==
    LET system == OrEmptyString(coding.system)
    IN  IF system = Rfc3986 THEN Return(<<coding.code>>)
        ELSE IF system \in DOMAIN uriIdx THEN
            LET keys == uriIdx[system]
                encoded == CodeToIRI(coding.code)
            IN  IF Len(keys) > 0 /\ encoded.threw THEN encoded
                ELSE Return([k \in 1..Len(keys) |-> keys[k] \o encoded.value])
        ELSE Return(<<>>)

\* String.prototype.lastIndexOf, counted from 1; 0 when ch does not occur
LastIndexOf(s, ch) ==
    IF \E i \in 1..Len(s) : s[i] = ch
    THEN CHOOSE i \in 1..Len(s) : s[i] = ch /\ \A j \in (i + 1)..Len(s) : s[j] # ch
    ELSE 0

\* SplitPoint at the last '#' or '/', whichever comes later
SplitPointAtLastSeparator(iri) ==
    IF LastIndexOf(iri, 35) > LastIndexOf(iri, 47) THEN LastIndexOf(iri, 35)
    ELSE LastIndexOf(iri, 47)

\* the point toCoding splits iri at, 0 when it has neither '#' nor '/'
SplitPoint(iri) ==
    IF LastIndexOf(iri, 35) # 0 THEN LastIndexOf(iri, 35)
    ELSE IF LastIndexOf(iri, 47) # 0 THEN LastIndexOf(iri, 47)
    ELSE 0

\* OpaqueCoding with the code that follows the split point as its code
OpaqueCodingOfRemainder(iri) ==
    <<Coding(Rfc3986, SubSeq(iri, SplitPoint(iri) + 1, Len(iri)))>>

\* the opaque Coding of an IRI that is not split or not indexed
OpaqueCoding(iri) == <<Coding(Rfc3986, iri)>>

\* ToCoding as it was before the opaque fallback: no Coding for an IRI that
\* is not split or not indexed
ToCodingWithoutFallback(prefixIdx, iri) ==
    IF SplitPoint(iri) = 0 THEN Return(<<>>)
    ELSE LET prefix == SubSeq(iri, 1, SplitPoint(iri))
             code == SubSeq(iri, SplitPoint(iri) + 1, Len(iri))
         IN  IF prefix \in DOMAIN prefixIdx THEN
                 LET uris == prefixIdx[prefix]
                     decoded == DecodeURIComponent(code)
                 IN  IF Len(uris) > 0 /\ decoded.threw THEN decoded
                     ELSE Return([k \in 1..Len(uris) |->
                                     Coding(uris[k], decoded.value)])
             ELSE Return(<<>>)

ToCoding(prefixIdx, iri) ==
    IF SplitPoint(iri) = 0 THEN Return(OpaqueCoding(iri))
    ELSE LET prefix == SubSeq(iri, 1, SplitPoint(iri))
             code == SubSeq(iri, SplitPoint(iri) + 1, Len(iri))
         IN  IF prefix \in DOMAIN prefixIdx THEN
                 LET uris == prefixIdx[prefix]
                     decoded == DecodeURIComponent(code)
                 IN  IF Len(uris) > 0 /\ decoded.threw THEN decoded
                     ELSE Return([k \in 1..Len(uris) |->
                                     Coding(uris[k], decoded.value)])
             ELSE Return(OpaqueCoding(iri))

-----------------------------------------------------------------------------
(* Terminology documents: the files of the hl7.terminology directory *)

\* the identifier system and the uniqueId comment that mark an IRI stem
IRIstemSystem == "https://terminology.hl7.org/temporary/CodeSystem/IRIstem"
IRIstemComment == "IRIstem"

Filename(stem, ext) == [stem |-> stem, ext |-> ext]

\* filename.endsWith('.json') && (filename.startsWith('CodeSystem-') ||
\*                                filename.startsWith('NamingSystem-'))
Selected(filename) ==
    filename.ext = ".json" /\ filename.stem \in {"CodeSystem-", "NamingSystem-"}

Content(url, identifier, uniqueId) ==
    [url |-> url, identifier |-> identifier, uniqueId |-> uniqueId]

\* a directory entry: its name, whether JSON.parse accepts its text, and
\* the object it parses to
Document(filename, parses, content) ==
    [filename |-> filename, parses |-> parses, content |-> content]

\* no document is being worked on
NoFile == [filename |-> Filename("", ""), content |-> Content(Undefined, AbsentList, AbsentList)]

\* UrisOf as it was before the filter on id.preferred
UrisOfAnyPreference(content) ==
    LET ids == OrEmptyList(content.uniqueId)
        onlyUris == SelectSeq(ids, LAMBDA id : id.type = "uri")
    IN  [k \in 1..Len(onlyUris) |-> onlyUris[k].value]

\* the preferred URIs of a naming-system document
UrisOf(content) ==
    LET ids == OrEmptyList(content.uniqueId)
        onlyUris == SelectSeq(ids, LAMBDA id : id.type = "uri")
        onlyPreferred == SelectSeq(onlyUris, LAMBDA id : id.preferred)
    IN  [k \in 1..Len(onlyPreferred) |-> onlyPreferred[k].value]

-----------------------------------------------------------------------------
(* The constructor *)

\* no Coding: toCoding was not handed the result of a fromCoding
NoCoding == Coding(Undefined, Undefined)

Init ==
    /\ pc = "building"
    /\ file = NoFile
    /\ nfiles = 0
    /\ ei = 0
    /\ ui = 0
    /\ prefixIndex = EmptyObject
    /\ uriIndex = EmptyObject
    /\ op = "none"
    /\ arg = <<>>
    /\ ret = Return(<<>>)
    /\ origin = NoCoding

callVars == <<op, arg, ret, origin>>

\* the next directory entry: filtered out, or read and parsed.  JSON.parse
\* throws on a malformed text, and nothing in the constructor catches it.
ReadFile(doc) ==
    /\ pc = "building"
    /\ file = NoFile
    /\ nfiles < MaxFiles
    /\ IF ~Selected(doc.filename)
       THEN /\ nfiles' = nfiles + 1
            /\ UNCHANGED <<pc, file, ei, ui>>
       ELSE IF ~doc.parses
       THEN /\ pc' = "failed"
            /\ UNCHANGED <<file, nfiles, ei, ui>>
       ELSE /\ file' = [filename |-> doc.filename, content |-> doc.content]
            /\ ei' = 1
            /\ ui' = 1
            /\ UNCHANGED <<pc, nfiles>>
    /\ UNCHANGED <<prefixIndex, uriIndex, callVars>>

\* one iteration of (content.identifier || []).forEach
CodeSystemStep ==
    /\ pc = "building"
    /\ file # NoFile
    /\ file.filename.stem = "CodeSystem-"
    /\ ei <= Len(OrEmptyList(file.content.identifier))
    /\ LET url == file.content.url
           id == OrEmptyList(file.content.identifier)[ei]
       IN  IF id.system = IRIstemSystem
           THEN /\ prefixIndex' = RegisterPrefix(prefixIndex, id.value, url)
                /\ uriIndex' = RegisterUri(uriIndex, id.value, url)
           ELSE UNCHANGED <<prefixIndex, uriIndex>>
    /\ ei' = ei + 1
    /\ UNCHANGED <<pc, file, nfiles, ui, callVars>>

\* one iteration of uris.forEach inside (content.uniqueId || []).forEach
NamingSystemStep ==
    /\ pc = "building"
    /\ file # NoFile
    /\ file.filename.stem = "NamingSystem-"
    /\ ei <= Len(OrEmptyList(file.content.uniqueId))
    /\ ui <= Len(UrisOf(file.content))
    /\ LET uris == UrisOf(file.content)
           id == OrEmptyList(file.content.uniqueId)[ei]
           uri == uris[ui]
       IN  /\ IF id.comment = IRIstemComment
              THEN /\ prefixIndex' = RegisterPrefix(prefixIndex, id.value, uri)
                   /\ uriIndex' = RegisterUri(uriIndex, id.value, uri)
              ELSE UNCHANGED <<prefixIndex, uriIndex>>
           /\ IF ui < Len(uris)
              THEN ui' = ui + 1 /\ ei' = ei
              ELSE ui' = 1 /\ ei' = ei + 1
    /\ UNCHANGED <<pc, file, nfiles, callVars>>

\* the loops over the document's entries have ended
Exhausted ==
    IF file.filename.stem = "CodeSystem-"
    THEN ei > Len(OrEmptyList(file.content.identifier))
    ELSE \/ ei > Len(OrEmptyList(file.content.uniqueId))
         \/ Len(UrisOf(file.content)) = 0

\* the callback of files.forEach returns
CloseFile ==
    /\ pc = "building"
    /\ file # NoFile
    /\ Exhausted
    /\ file' = NoFile
    /\ nfiles' = nfiles + 1
    /\ ei' = 0
    /\ ui' = 0
    /\ UNCHANGED <<pc, prefixIndex, uriIndex, callVars>>

\* files.forEach returns and so does the constructor
Finish ==
    /\ pc = "building"
    /\ file = NoFile
    /\ pc' = "ready"
    /\ UNCHANGED <<file, nfiles, ei, ui, prefixIndex, uriIndex, callVars>>

-----------------------------------------------------------------------------
(* Calls on the constructed instance *)

buildVars == <<pc, file, nfiles, ei, ui>>

CallCodeToIRI(code) ==
    /\ pc = "ready"
    /\ op' = "codeToIRI"
    /\ arg' = code
    /\ ret' = CodeToIRI(code)
    /\ origin' = NoCoding
    /\ UNCHANGED <<buildVars, prefixIndex, uriIndex>>

CallFromCoding(coding) ==
    /\ pc = "ready"
    /\ op' = "fromCoding"
    /\ arg' = coding
    /\ ret' = FromCoding(uriIndex, coding)
    /\ origin' = NoCoding
    /\ UNCHANGED <<buildVars, prefixIndex, uriIndex>>

\* CallToCoding keeping the IRIs it could not resolve in this.prefixIndex
CallToCodingCaching(iri) ==
    /\ pc = "ready"
    /\ op' = "toCoding"
    /\ arg' = iri
    /\ ret' = ToCoding(prefixIndex, iri)
    /\ origin' = NoCoding
    /\ prefixIndex' = IF ToCoding(prefixIndex, iri) = Return(OpaqueCoding(iri))
                      THEN RegisterPrefix(prefixIndex, iri, Rfc3986)
                      ELSE prefixIndex
    /\ UNCHANGED <<buildVars, uriIndex>>

CallToCoding(iri) ==
    /\ pc = "ready"
    /\ op' = "toCoding"
    /\ arg' = iri
    /\ ret' = ToCoding(prefixIndex, iri)
    /\ origin' = NoCoding
    /\ UNCHANGED <<buildVars, prefixIndex, uriIndex>>

\* toCoding(fromCoding(coding)[0])
CallToCodingOfFirst ==
    /\ pc = "ready"
    /\ op = "fromCoding"
    /\ ~ret.threw
    /\ Len(ret.value) > 0
    /\ op' = "toCoding"
    /\ arg' = ret.value[1]
    /\ ret' = ToCoding(prefixIndex, ret.value[1])
    /\ origin' = arg
    /\ UNCHANGED <<buildVars, prefixIndex, uriIndex>>

-----------------------------------------------------------------------------
(* Inputs *)

\* "h/", "h#", "h"
Prefixes == {<<104, 47>>, <<104, 35>>, <<104>>}

\* "s", "t"
Uris == {<<115>>, <<116>>}

\* "u", registered by no document
UnregisteredUri == <<117>>

ListsUpTo(entries, n) == UNION {[1..k -> entries] : k \in 0..n}

\* identifier entries: two IRI stems, and an identifier of another system
IdentifierEntries ==
    {[system |-> IRIstemSystem, value |-> <<104, 47>>],
     [system |-> IRIstemSystem, value |-> <<104>>],
     [system |-> "other", value |-> <<104, 35>>]}

UniqueId(type, value, comment, preferred) ==
    [type |-> type, value |-> value, comment |-> comment, preferred |-> preferred]

\* uniqueId entries: a preferred URI, a URI that is not preferred, a preferred
\* entry that is no URI, an IRI stem, an entry that is none of these, and a
\* preferred URI that is an IRI stem as well
UniqueIdEntries ==
    {UniqueId("uri", <<115>>, "other", TRUE),
     UniqueId("uri", <<116>>, "other", FALSE),
     UniqueId("other", <<116>>, "other", TRUE),
     UniqueId("other", <<104, 47>>, IRIstemComment, FALSE),
     UniqueId("other", <<104>>, "other", FALSE),
     UniqueId("uri", <<115>>, IRIstemComment, TRUE)}

CodeSystemDocuments ==
    {Document(Filename("CodeSystem-", ".json"), TRUE, Content(url, identifier, AbsentList)) :
        url \in Uris \cup {Undefined},
        identifier \in {List(l) : l \in ListsUpTo(IdentifierEntries, MaxEntries)}
                       \cup {AbsentList}}

NamingSystemDocuments ==
    {Document(Filename("NamingSystem-", ".json"), TRUE, Content(Undefined, AbsentList, uniqueId)) :
        uniqueId \in {List(l) : l \in ListsUpTo(UniqueIdEntries, MaxEntries)}
                     \cup {AbsentList}}

\* texts JSON.parse rejects, and directory entries the filter drops
OtherDocuments ==
    {Document(Filename(stem, ext), FALSE, NoFile.content) :
        stem \in {"CodeSystem-", "NamingSystem-", "ValueSet-"}, ext \in {".json", ".xml"}}

Documents == CodeSystemDocuments \cup NamingSystemDocuments \cup OtherDocuments

\* code-system documents with one IRI-stem identifier
StemDocuments ==
    {Document(Filename("CodeSystem-", ".json"), TRUE,
              Content(url, List(<<[system |-> IRIstemSystem, value |-> value]>>),
                      AbsentList)) :
        url \in Uris \cup {Rfc3986}, value \in Prefixes}

\* 'A', ' ', '%', '/', U+0085, U+263A, U+FFFE
CodeAlphabet == {65, 32, 37, 47, 133, 9786, 65534}

\* a code is not empty
Codes == StringsUpTo(CodeAlphabet, MaxCodeLen) \ {<<>>}

Systems == Uris \cup {UnregisteredUri, Rfc3986, <<>>, Undefined}

Codings == {Coding(system, code) : system \in Systems, code \in Codes}

\* 'h', '/', '#', '%', 'X'
IriAlphabet == {104, 47, 35, 37, 88}

\* escape sequences, well-formed and malformed: %20 %41 %C2%85 %E2%98%BA
\* %F0%9F%91%8B and % %2 %zz %C3 %80 %F8 %C0%80 %ED%A0%80
Escapes ==
    {<<37, 50, 48>>, <<37, 52, 49>>, <<37, 67, 50, 37, 56, 53>>,
     <<37, 69, 50, 37, 57, 56, 37, 66, 65>>,
     <<37, 70, 48, 37, 57, 70, 37, 57, 49, 37, 56, 66>>,
     <<37>>, <<37, 50>>, <<37, 122, 122>>, <<37, 67, 51>>, <<37, 56, 48>>,
     <<37, 70, 56>>, <<37, 67, 48, 37, 56, 48>>, <<37, 69, 68, 37, 65, 48, 37, 56, 48>>}

Iris ==
    StringsUpTo(IriAlphabet, MaxIriLen)
    \cup {prefix \o escape : prefix \in Prefixes, escape \in Escapes}

\* Codings of system 'urn:ietf:rfc:3986', whose code is an IRI
SentinelCodings == {Coding(Rfc3986, iri) : iri \in Iris \ {<<>>}}

\* a few arguments for the calls that follow a construction from Documents
SomeCodings == {Coding(system, code) : system \in Uris \cup {Rfc3986, Undefined},
                                       code \in {<<65>>, <<32>>, <<65534>>}}

SomeIris == {<<104, 47, 88>>, <<104, 88>>, <<104, 47, 37>>, <<88>>}

\* uniqueId entries of one naming-system document: the IRI stems "h/" (of a
\* preferred entry that is no URI) and "h#", the preferred URIs "s" and "t",
\* and the URI "u" that is not preferred
StemAndUriEntries ==
    {UniqueId("other", <<104, 47>>, IRIstemComment, TRUE),
     UniqueId("other", <<104, 35>>, IRIstemComment, FALSE),
     UniqueId("uri", <<115>>, "other", TRUE),
     UniqueId("uri", <<116>>, "other", TRUE),
     UniqueId("uri", UnregisteredUri, "other", FALSE)}

\* the lists without repetition of the elements of entries, in every order
Arrangements(entries) ==
    UNION {{l \in [1..k -> entries] : \A i, j \in 1..k : l[i] = l[j] => i = j} :
              k \in 0..Cardinality(entries)}

\* naming-system documents with some of these entries, in any order
ArrangedNamingSystemDocuments ==
    {Document(Filename("NamingSystem-", ".json"), TRUE,
              Content(Undefined, AbsentList, List(l))) :
        l \in Arrangements(StemAndUriEntries)}

\* code points at both sides of every boundary codeToIRI distinguishes
ScanAlphabet ==
    {0, 9, 15, 16, 32, 37, 45, 46, 47, 48, 57, 58, 64, 65, 90, 91, 95, 96, 97, 122,
     123, 126, 127, 128, 159, 160, 9786, 55295, 55296, 57343, 57344, 63743, 63744,
     64975, 64976, 65007, 65008, 65519, 65520, 65534, 65535, 65536, 128075,
     131069, 131070, 131071, 131072, 917501, 917502, 917504, 921599, 921600,
     983037, 983038, 983040, 1048576, 1114111}

ScanCodes == StringsUpTo(ScanAlphabet, MaxScanLen)

-----------------------------------------------------------------------------
(* Specifications *)

\* construction from any documents, then some calls
Next ==
    \/ \E doc \in Documents : ReadFile(doc)
    \/ CodeSystemStep
    \/ NamingSystemStep
    \/ CloseFile
    \/ Finish
    \/ \E code \in {<<65, 32>>, <<65534>>} : CallCodeToIRI(code)
    \/ \E coding \in SomeCodings : CallFromCoding(coding)
    \/ \E iri \in SomeIris : CallToCoding(iri)
    \/ CallToCodingOfFirst

Spec == Init /\ [][Next]_vars

\* construction from code-system documents, then one call of a conversion
\* on any argument, and toCoding on what fromCoding returned
ConvNext ==
    \/ \E doc \in StemDocuments : ReadFile(doc)
    \/ CodeSystemStep
    \/ CloseFile
    \/ Finish
    \/ op = "none" /\ \E coding \in Codings \cup SentinelCodings : CallFromCoding(coding)
    \/ op = "none" /\ \E iri \in Iris : CallToCoding(iri)
    \/ CallToCodingOfFirst

ConvSpec == Init /\ [][ConvNext]_vars

\* one call of codeToIRI on any code
CodeNext ==
    \/ Finish
    \/ op = "none" /\ \E code \in ScanCodes : CallCodeToIRI(code)

CodeSpec == Init /\ [][CodeNext]_vars

\* construction from naming-system documents whose entries come in any order
NamingNext ==
    \/ \E doc \in ArrangedNamingSystemDocuments : ReadFile(doc)
    \/ NamingSystemStep
    \/ CloseFile
    \/ Finish

NamingSpec == Init /\ [][NamingNext]_vars

-----------------------------------------------------------------------------
(* Properties *)

\* the members of index[key], none when key is no key of index
Members(index, key) ==
    IF key \in DOMAIN index THEN {index[key][k] : k \in 1..Len(index[key])} ELSE {}

\* every key and member of the two mappings
AllKeys ==
    DOMAIN prefixIndex \cup DOMAIN uriIndex
    \cup UNION {Members(prefixIndex, p) : p \in DOMAIN prefixIndex}
    \cup UNION {Members(uriIndex, u) : u \in DOMAIN uriIndex}

\* the elements of a sequence
Range(seq) == {seq[k] : k \in 1..Len(seq)}

\* C1: round trip.  When toCoding is handed the first IRI fromCoding returned
\* for a Coding whose system is registered and whose code codeToIRI accepts,
\* its result contains that Coding, whatever the registered prefixes are.
C1_RoundTrip ==
    (/\ op = "toCoding"
     /\ origin # NoCoding
     /\ origin.system \in DOMAIN uriIndex
     /\ ~CodeToIRI(origin.code).threw)
    => /\ ~ret.threw
       /\ origin \in Range(ret.value)

\* C2: toCoding is total.  Every call returns at least one Coding and none
\* ends in an error.
C2_ToCodingTotal ==
    op = "toCoding" => ~ret.threw /\ Len(ret.value) >= 1

\* C3: the two mappings are inverses of each other after every registration
\* step of the constructor and after every later call: prefix is a member of
\* uriIndex[uri] exactly when uri is a member of prefixIndex[prefix].
C3_IndexInverse ==
    \A prefix \in AllKeys : \A uri \in AllKeys :
        prefix \in Members(uriIndex, uri) <=> uri \in Members(prefixIndex, prefix)

\* C3 witness: an instance built from two registrations of one prefix, after
\* a call of toCoding
C3_Witness ==
    /\ pc = "ready"
    /\ op = "toCoding"
    /\ \E prefix \in DOMAIN prefixIndex : Len(prefixIndex[prefix]) = 2
    /\ Cardinality(DOMAIN uriIndex) = 2

\* C4: a document that does not parse never aborts the construction (the
\* constructor goes on to the other documents and finishes).
C4_ConstructionCompletes ==
    pc # "failed"

\* the prefixes registered for system, read from prefixIndex
PrefixesOf(system) == {prefix \in DOMAIN prefixIndex : system \in Members(prefixIndex, prefix)}

\* C5: for a system other than 'urn:ietf:rfc:3986', fromCoding returns one IRI
\* per prefix registered for the system, each the prefix followed by
\* codeToIRI(code), without duplicates, when the system is a key of uriIndex
\* (and codeToIRI accepts the code), and the empty sequence when the system
\* is no key, whatever the code is.
C5_FromCodingLookup ==
    (op = "fromCoding" /\ OrEmptyString(arg.system) # Rfc3986)
    => LET system == OrEmptyString(arg.system)
           encoded == CodeToIRI(arg.code)
       IN  IF system \in DOMAIN uriIndex
           THEN ~encoded.threw =>
                   /\ ~ret.threw
                   /\ Len(ret.value) = Cardinality(PrefixesOf(system))
                   /\ Cardinality(Range(ret.value)) = Len(ret.value)
                   /\ Range(ret.value) =
                          {prefix \o encoded.value : prefix \in PrefixesOf(system)}
           ELSE ret = Return(<<>>)

\* C5 witness: a system with two prefixes and a code with a character that
\* is escaped
C5_Witness ==
    /\ op = "fromCoding"
    /\ OrEmptyString(arg.system) # Rfc3986
    /\ Cardinality(PrefixesOf(OrEmptyString(arg.system))) = 2
    /\ 32 \in Range(arg.code)
    /\ ~ret.threw
    /\ Len(ret.value) = 2

\* C6: for a Coding of system 'urn:ietf:rfc:3986', fromCoding returns the one
\* element coding.code, unencoded, and raises nothing, whatever the code and
\* the index are.
C6_SentinelPassthrough ==
    (op = "fromCoding" /\ arg.system = Rfc3986) => ret = Return(<<arg.code>>)

\* C6 witness: the sentinel system is itself registered, and the code holds a
\* space and a code point codeToIRI rejects
C6_Witness ==
    /\ op = "fromCoding"
    /\ arg.system = Rfc3986
    /\ Rfc3986 \in DOMAIN uriIndex
    /\ arg.code = <<32, 65534>>
    /\ ret.value = <<arg.code>>

\* the unreserved set A-Z a-z 0-9 '-' '.' '_' '~'
ClaimedUnreserved(cp) ==
    cp \in (65..90) \cup (97..122) \cup (48..57) \cup {45, 46, 95, 126}

\* the ranges U+00A0-U+D7FF, U+F900-U+FDCF, U+FDF0-U+FFEF, U+n0000-U+nFFFD of
\* the planes 1 to D, and U+E1000-U+EFFFD
ClaimedUcschar(cp) ==
    \/ cp \in 160..55295
    \/ cp \in 63744..64975
    \/ cp \in 65008..65519
    \/ cp \in 65536..917503 /\ cp % 65536 <= 65533
    \/ cp \in 921600..983037

UpperHexDigit(d) == IF d < 10 THEN 48 + d ELSE 55 + d

\* 'U+' and the uppercase hexadecimal digits of cp, four of them at least
ClaimedFormat(cp) ==
    LET width == IF cp < 65536 THEN 4 ELSE IF cp < 1048576 THEN 5 ELSE 6
    IN  <<85, 43>> \o [i \in 1..width |-> UpperHexDigit((cp \div (16 ^ (width - i))) % 16)]

\* the code points of code at or above U+00A0 and outside the allowed ranges
Offending(code) == SelectSeq(code, LAMBDA cp : cp >= 160 /\ ~ClaimedUcschar(cp))

EndsWith(s, tail) ==
    Len(s) >= Len(tail) /\ SubSeq(s, Len(s) - Len(tail) + 1, Len(s)) = tail

\* C7: codeToIRI fails exactly when the code holds a code point at or above
\* U+00A0 outside the allowed ranges; the error then lists every such code
\* point of the code, in order, each as 'U+' and its uppercase hexadecimal
\* value of four digits at least, and no encoded string is returned.
C7_FailureCollection ==
    op = "codeToIRI"
    => LET offending == Offending(arg)
           listed == Join([i \in 1..Len(offending) |-> ClaimedFormat(offending[i])],
                          <<44, 32>>)
       IN  /\ ret.threw <=> Len(offending) > 0
           /\ ret.threw => ret.value = <<>> /\ EndsWith(ret.error, listed)

\* C7 witness: a failed call on a code with two different offending code points
C7_Witness ==
    /\ op = "codeToIRI"
    /\ ret.threw
    /\ Len(Offending(arg)) = 2
    /\ Offending(arg)[1] # Offending(arg)[2]

\* the '%XX' triplets of the UTF-8 octets of a code point below U+00A0: the
\* octet cp below U+0080, the octets 0xC2 and cp from U+0080 to U+009F
ClaimedEscape(cp) ==
    IF cp < 128 THEN <<37, UpperHexDigit(cp \div 16), UpperHexDigit(cp % 16)>>
    ELSE <<37, 67, 50, 37, UpperHexDigit(cp \div 16), UpperHexDigit(cp % 16)>>

\* C8: in the output of a successful codeToIRI, every code point below U+00A0
\* outside the unreserved set is replaced, in place and in order, by one
\* '%XX' triplet per octet of its UTF-8 encoding, XX being two uppercase
\* hexadecimal digits.
C8_EscapingExactness ==
    (op = "codeToIRI" /\ ~ret.threw)
    => ret.value =
           Join([i \in 1..Len(arg) |->
                    IF arg[i] < 160 /\ ~ClaimedUnreserved(arg[i])
                    THEN ClaimedEscape(arg[i]) ELSE <<arg[i]>>], <<>>)

\* C8 witness: a successful call on a code with a code point below U+0010 and
\* one from U+0080 to U+009F
C8_Witness ==
    /\ op = "codeToIRI"
    /\ ~ret.threw
    /\ \E i \in 1..Len(arg) : arg[i] <= 15
    /\ \E i \in 1..Len(arg) : arg[i] \in 128..159

\* the three outcomes of codeToIRI on a single code point
Unchanged == ~ret.threw /\ ret.value = arg
Escaped == ~ret.threw /\ ret.value # arg /\ ret.value[1] = 37
Rejected == ret.threw

\* the number of supplementary-plane ranges codeToIRI lets through
SupplementaryRanges ==
    Cardinality({i \in 1..Len(UcscharRanges) : UcscharRanges[i][1] >= 65536})

\* the surrogates, U+FDD0-U+FDEF, U+xFFFE and U+xFFFF, U+E0000-U+E0FFF and the
\* planes F and 10
NamedRejected(cp) ==
    \/ cp \in 55296..57343
    \/ cp \in 64976..65007
    \/ cp % 65536 >= 65534
    \/ cp \in 917504..921599
    \/ cp >= 983040

\* what C9 says of one call of codeToIRI, apart from the number of ranges
C9_Classes ==
    /\ Len(arg) = 1 =>
          /\ Unchanged <=> (ClaimedUnreserved(arg[1]) \/ ClaimedUcschar(arg[1]))
          /\ Cardinality({class \in {"unchanged", "escaped", "rejected"} :
                 \/ class = "unchanged" /\ Unchanged
                 \/ class = "escaped" /\ Escaped
                 \/ class = "rejected" /\ Rejected}) = 1
          /\ NamedRejected(arg[1]) => Rejected
    /\ (\A i \in 1..Len(arg) : ClaimedUnreserved(arg[i]) \/ ClaimedUcschar(arg[i]))
          => ret = Return(arg)

\* C9 (as amended): codeToIRI leaves a code point unchanged exactly when it is
\* in the unreserved set or in U+00A0-U+D7FF, U+F900-U+FDCF, U+FDF0-U+FFEF or
\* one of the fourteen supplementary-plane ranges U+10000-U+1FFFD to
\* U+E1000-U+EFFFD; a code of such code points is returned as it is, and every
\* code point is unchanged, escaped or rejected, and only one of the three.
C9_PassThroughSet ==
    op = "codeToIRI" => C9_Classes /\ SupplementaryRanges = 14

\* C9 (as stated): the same, the supplementary-plane ranges being sixteen
C9_SixteenRanges ==
    op = "codeToIRI" => C9_Classes /\ SupplementaryRanges = 16

\* C9 witness: a code of two code points of supplementary ranges, the last
\* of them U+EFFFD, comes back as it is
C9_Witness ==
    /\ op = "codeToIRI"
    /\ arg = <<128075, 983037>>
    /\ ret = Return(arg)

\* the systems registered for prefix, read from uriIndex
SystemsOf(prefix) == {uri \in DOMAIN uriIndex : prefix \in Members(uriIndex, uri)}

\* C10: when two or more systems are registered for a prefix P, toCoding of P
\* followed by "X" returns one Coding per system, each of code "X", and no
\* other Coding.
C10_AmbiguousPrefix ==
    \A P \in DOMAIN prefixIndex :
        (op = "toCoding" /\ Cardinality(SystemsOf(P)) >= 2 /\ arg = P \o <<88>>)
        => /\ ~ret.threw
           /\ Len(ret.value) = Cardinality(SystemsOf(P))
           /\ Range(ret.value) = {Coding(uri, <<88>>) : uri \in SystemsOf(P)}

\* the greatest position of ch in iri, 0 when ch does not occur in it
Rightmost(iri, ch) ==
    LET at == {i \in 1..Len(iri) : iri[i] = ch}
    IN  IF at = {} THEN 0 ELSE CHOOSE i \in at : \A j \in at : j <= i

\* where an IRI is to be split: after its rightmost '#', after its rightmost
\* '/' when it has no '#', nowhere (0) when it has neither
ClaimedSplit(iri) ==
    IF Rightmost(iri, 35) # 0 THEN Rightmost(iri, 35) ELSE Rightmost(iri, 47)

ClaimedPrefix(iri) == SubSeq(iri, 1, ClaimedSplit(iri))
ClaimedRemainder(iri) == SubSeq(iri, ClaimedSplit(iri) + 1, Len(iri))

\* C11: opaque fallback.  When the IRI has neither '#' nor '/', or is split
\* but its prefix is no key of prefixIndex, toCoding returns the one Coding of
\* system 'urn:ietf:rfc:3986' whose code is the whole IRI as it was passed,
\* not its remainder and not decoded, the same in both cases.
C11_OpaqueFallback ==
    (/\ op = "toCoding"
     /\ \/ ClaimedSplit(arg) = 0
        \/ ClaimedPrefix(arg) \notin DOMAIN prefixIndex)
    => ret = Return(<<Coding(Rfc3986, arg)>>)

\* C11 witness: an IRI with an escape sequence after a '/', split at a prefix
\* that is no key of an index that has keys, comes back whole
C11_Witness ==
    /\ op = "toCoding"
    /\ ClaimedSplit(arg) # 0
    /\ DOMAIN prefixIndex # {}
    /\ ClaimedPrefix(arg) \notin DOMAIN prefixIndex
    /\ ClaimedRemainder(arg) = <<37, 50, 48>>
    /\ ret.value = <<Coding(Rfc3986, arg)>>


\* C12: the split of toCoding.  An IRI with a '#' is split after its rightmost
\* '#' even when a '/' comes later, the code being all that follows, and an
\* IRI without '#' after its rightmost '/'; the prefix followed by the
\* undecoded remainder is the IRI.  The result shows the split: when the
\* prefix is a key of prefixIndex, the Codings carry the systems of that key
\* and the decoded remainder.
C12_SplitTieBreak ==
    op = "toCoding"
    => /\ SplitPoint(arg) = ClaimedSplit(arg)
       /\ SubSeq(arg, 1, SplitPoint(arg)) \o SubSeq(arg, SplitPoint(arg) + 1, Len(arg)) = arg
       /\ (/\ ClaimedSplit(arg) # 0
           /\ ClaimedPrefix(arg) \in DOMAIN prefixIndex
           /\ ~ret.threw)
          => /\ Len(ret.value) = Len(prefixIndex[ClaimedPrefix(arg)])
             /\ \A k \in 1..Len(ret.value) :
                   /\ ret.value[k].system = prefixIndex[ClaimedPrefix(arg)][k]
                   /\ ret.value[k].code = DecodeURIComponent(ClaimedRemainder(arg)).value

\* C12 witness: "h#/", with a '/' after its '#', is split after the '#' and
\* yields the Coding of code "/" for the system registered for "h#"
C12_Witness ==
    /\ op = "toCoding"
    /\ arg = <<104, 35, 47>>
    /\ <<104, 35>> \in DOMAIN prefixIndex
    /\ ~ret.threw
    /\ Len(ret.value) = 1
    /\ ret.value[1].code = <<47>>


\* C13: errors of codeToIRI pass through fromCoding.  For a system that is a
\* key of uriIndex and not 'urn:ietf:rfc:3986', and a code with a code point
\* codeToIRI rejects, fromCoding fails with the error codeToIRI raises for the
\* code, which lists its offending code points, and returns no IRI, not even
\* for some of the prefixes.
C13_ErrorPropagation ==
    (/\ op = "fromCoding"
     /\ OrEmptyString(arg.system) # Rfc3986
     /\ OrEmptyString(arg.system) \in DOMAIN uriIndex
     /\ Len(Offending(arg.code)) > 0)
    => /\ ret.threw
       /\ ret.value = <<>>
       /\ ret.error = CodeToIRI(arg.code).error
       /\ EndsWith(ret.error,
                   Join([i \in 1..Len(Offending(arg.code)) |->
                            ClaimedFormat(Offending(arg.code)[i])], <<44, 32>>))

\* C13 witness: a failed fromCoding for a system with two prefixes and a code
\* whose first character is allowed and whose second is U+FFFE
C13_Witness ==
    /\ op = "fromCoding"
    /\ arg.system \in Uris
    /\ Cardinality(PrefixesOf(arg.system)) = 2
    /\ arg.code = <<65, 65534>>
    /\ ret.threw


\* the (key, member) pairs of a mapping
Pairs(index) ==
    UNION {{<<key, member>> : member \in Members(index, key)} : key \in DOMAIN index}

\* C14: registration from a code-system document.  Each step over a document
\* with a url adds the pair (value, url) to both mappings when the identifier
\* entry carries the IRI-stem marker and adds nothing otherwise; no step over
\* a document without url adds a key or a member to either mapping, marker or
\* no marker.
C14_CodeSystemRegistration ==
    [][(file # NoFile /\ file.filename.stem = "CodeSystem-")
       => LET ids == OrEmptyList(file.content.identifier)
              url == file.content.url
          IN  IF /\ url # Undefined
                 /\ ei <= Len(ids)
                 /\ ids[ei].system = IRIstemSystem
              THEN /\ Pairs(prefixIndex') = Pairs(prefixIndex) \cup {<<ids[ei].value, url>>}
                   /\ Pairs(uriIndex') = Pairs(uriIndex) \cup {<<url, ids[ei].value>>}
              ELSE /\ prefixIndex' = prefixIndex
                   /\ uriIndex' = uriIndex]_vars


\* the values of the uniqueId entries marked as IRI stems
StemValues(content) ==
    {id.value : id \in {e \in Range(OrEmptyList(content.uniqueId)) :
                           e.comment = IRIstemComment}}

\* the values of the uniqueId entries of type 'uri' that are preferred
PreferredUriValues(content) ==
    {id.value : id \in {e \in Range(OrEmptyList(content.uniqueId)) :
                           e.type = "uri" /\ e.preferred}}

\* every IRI stem of a naming-system document with every preferred URI of it
CrossProduct(content) == StemValues(content) \X PreferredUriValues(content)

Inverse(pairs) == {<<pair[2], pair[1]>> : pair \in pairs}

\* C15: registration from a naming-system document.  While the document is
\* worked on, nothing but pairs of one of its IRI stems and one of its
\* preferred URIs is added to the mappings, and when it is done with, all of
\* these pairs are registered, in whatever order its entries are listed; so
\* no URI that is not preferred or not of type 'uri' is registered, and
\* nothing is when the document has no IRI stem or no preferred URI.
C15_NamingSystemRegistration ==
    [][(file # NoFile /\ file.filename.stem = "NamingSystem-")
       => /\ Pairs(prefixIndex') \ Pairs(prefixIndex) \subseteq CrossProduct(file.content)
          /\ Pairs(uriIndex') \ Pairs(uriIndex) \subseteq Inverse(CrossProduct(file.content))
          /\ file' = NoFile
             => /\ CrossProduct(file.content) \subseteq Pairs(prefixIndex')
                /\ Inverse(CrossProduct(file.content)) \subseteq Pairs(uriIndex')]_vars

\* C15 witness: the first document, of five entries of which the first is an
\* IRI stem and the last a preferred URI, has been worked through, and the
\* mappings hold the four pairs of its two stems and two preferred URIs
C15_Witness ==
    /\ file # NoFile
    /\ nfiles = 0
    /\ Exhausted
    /\ Len(OrEmptyList(file.content.uniqueId)) = Cardinality(StemAndUriEntries)
    /\ file.content.uniqueId.entries[1].comment = IRIstemComment
    /\ file.content.uniqueId.entries[Cardinality(StemAndUriEntries)].preferred
    /\ Cardinality(CrossProduct(file.content)) = 4
    /\ Pairs(prefixIndex) = CrossProduct(file.content)
    /\ Pairs(uriIndex) = Inverse(CrossProduct(file.content))


\* C16: the mappings are fixed once the constructor has returned.  No call of
\* codeToIRI, fromCoding or toCoding, whatever it is called with and however
\* it ends, changes prefixIndex or uriIndex, and the Coding handed to
\* fromCoding is after the call what it was before.
C16_IndexImmutability ==
    [][pc = "ready"
       => /\ prefixIndex' = prefixIndex
          /\ uriIndex' = uriIndex
          /\ \A coding \in SomeCodings : CallFromCoding(coding) => arg' = coding]_vars

\* C16 witness: after a fromCoding and a toCoding of its first IRI that ended
\* in the fallback, on an instance whose mappings have two systems
C16_Witness ==
    /\ pc = "ready"
    /\ op = "toCoding"
    /\ origin # NoCoding
    /\ ret = Return(OpaqueCoding(arg))
    /\ Cardinality(DOMAIN uriIndex) = 2


\* C17 (as stated): the round trip of a Coding of system 'urn:ietf:rfc:3986'.
\* toCoding of the one IRI fromCoding returns for it returns the Coding
\* itself and no other, whatever its code and the index are, codes with '/'
\* or '#' that begin with a registered prefix included.
C17_SentinelRoundTrip ==
    (op = "toCoding" /\ origin.system = Rfc3986)
    => ret = Return(<<origin>>)

\* C17 (as amended): the same for the codes that have neither '#' nor '/' or
\* whose part up to the rightmost '#' (the rightmost '/' when there is no
\* '#') is no key of prefixIndex.
C17_SentinelRoundTripUnindexed ==
    (/\ op = "toCoding"
     /\ origin.system = Rfc3986
     /\ \/ ClaimedSplit(origin.code) = 0
        \/ ClaimedPrefix(origin.code) \notin DOMAIN prefixIndex)
    => ret = Return(<<origin>>)

\* C17 witness: the code "h/X" begins with the registered prefix "h" and has
\* a '/', "h/" is no key, and the Coding comes back as it was
C17_Witness ==
    /\ op = "toCoding"
    /\ origin = Coding(Rfc3986, <<104, 47, 88>>)
    /\ <<104>> \in DOMAIN prefixIndex
    /\ <<104, 47>> \notin DOMAIN prefixIndex
    /\ ret = Return(<<origin>>)

====
